---- MODULE Spec2Model ----
(***************************************************************************)
(* Model of src/main/cpp/util/path_windows.cc (namespace blaze_util).      *)
(*                                                                         *)
(* A path is a sequence of code units; a code unit is a one-character      *)
(* string.  Offsets are 0-based as in the C++ code: At(s, i) is s[i], and  *)
(* reading at offset size() yields the terminating NUL, as c_str() and     *)
(* std::string::operator[] do.                                             *)
(***************************************************************************)
EXTENDS Integers, Sequences, FiniteSets, TLC

VARIABLES
  path,      \* the caller-supplied path of the call under study
  cwd,       \* what GetCwdW() returns for the duration of the call
  op,        \* the public operation that was applied last ("none" initially)
  out,       \* what that operation returned
  prev,      \* the result of the preceding AsWindowsPath call (for re-application)
  pc,        \* position inside AsShortWindowsPath
  wpath,     \* AsShortWindowsPath: local wpath
  segments,  \* AsShortWindowsPath: local segments (split-off leaves, in push order)
  size,      \* AsShortWindowsPath: local size (last answer of the sizing query)
  wsuffix,   \* AsShortWindowsPath: local wsuffix
  queries,   \* log of the GetShortPathNameW calls issued: <<kind, path, outcome>>
  sres       \* what AsShortWindowsPath returned

vars == <<path, cwd, op, out, prev, pc, wpath, segments, size, wsuffix, queries, sres>>

----------------------------------------------------------------------------
(* Bounds of the model *)

\* longest path drawn from all strings over Alphabet
MaxLen == 4
\* most segments of a path built from a root and segments
MaxSegs == 3
\* most segments of a path handed to AsShortWindowsPath
MaxShortSegs == 3
\* cap on the iterations of the ascent loop that the model follows
MaxIter == 5

----------------------------------------------------------------------------
(* Code units *)

NUL == ""
BS == "\\"
FS == "/"

Lower == {"a", "b", "c", "d", "e", "f", "g", "l", "n", "o", "s", "u", "v", "w"}
Upper == {"C", "D", "F", "L", "N", "U"}

\* isalpha / iswalpha on the code units of the model
IsAlpha(ch) == ch \in Lower \cup Upper

\* towlower / ToLower on one code unit
LowerOf(ch) ==
  CASE ch = "C" -> "c"
    [] ch = "D" -> "d"
    [] ch = "F" -> "f"
    [] ch = "L" -> "l"
    [] ch = "N" -> "n"
    [] ch = "U" -> "u"
    [] OTHER -> ch

ToLower(s) == [i \in 1..Len(s) |-> LowerOf(s[i])]

At(s, i) == IF i >= 0 /\ i < Len(s) THEN s[i + 1] ELSE NUL

\* std::string::substr(pos) and substr(pos, n)
SubstrFrom(s, pos) == SubSeq(s, pos + 1, Len(s))
Substr(s, pos, n) == SubSeq(s, pos + 1, IF pos + n > Len(s) THEN Len(s) ELSE pos + n)

IsPathSeparator(ch) == ch = FS \/ ch = BS

HasDriveSpecifierPrefix(s) == IsAlpha(At(s, 0)) /\ At(s, 1) = ":"

\* bazel::windows::HasUncPrefix: the path starts with "\\?\", "\\.\" or "\??\"
HasUncPrefix(s) ==
  /\ At(s, 0) = BS
  /\ \/ (At(s, 1) = BS /\ (At(s, 2) = "?" \/ At(s, 2) = "."))
     \/ (At(s, 1) = "?" /\ At(s, 2) = "?")
  /\ At(s, 3) = BS

UncPrefix == <<BS, BS, "?", BS>>

RemoveUncPrefixMaybe(s) == SubstrFrom(s, IF HasUncPrefix(s) THEN 4 ELSE 0)

IsRootOrAbsolute(p, must_be_root) ==
  \/ /\ (IF must_be_root THEN Len(p) = 1 ELSE p # <<>>)
     /\ IsPathSeparator(At(p, 0))
  \/ /\ (IF must_be_root THEN Len(p) = 3 ELSE Len(p) >= 3)
     /\ HasDriveSpecifierPrefix(p)
     /\ IsPathSeparator(At(p, 2))
  \/ /\ (IF must_be_root THEN Len(p) = 7 ELSE Len(p) >= 7)
     /\ HasUncPrefix(p)
     /\ HasDriveSpecifierPrefix(SubstrFrom(p, 4))
     /\ IsPathSeparator(At(p, 6))

IsRootDirectoryW(p) == IsRootOrAbsolute(p, TRUE)

IsAbsolute(p) == IsRootOrAbsolute(p, FALSE)

----------------------------------------------------------------------------
(* SplitPathImpl *)

\* a variant without the drive-root branch
SplitAtNoRootBranch(p, pos) ==
  <<IF pos = 0 THEN Substr(p, 0, 1) ELSE Substr(p, 0, pos),
    IF pos = Len(p) - 1 THEN <<>> ELSE SubstrFrom(p, pos + 1)>>

\* the branch taken at the rightmost separator, found at offset pos
SplitAt(p, pos) ==
  IF (pos = 2 \/ pos = 6) /\ IsRootOrAbsolute(Substr(p, 0, pos + 1), TRUE)
  THEN <<Substr(p, 0, pos + 1), SubstrFrom(p, pos + 1)>>
  ELSE <<IF pos = 0 THEN Substr(p, 0, 1) ELSE Substr(p, 0, pos),
         IF pos = Len(p) - 1 THEN <<>> ELSE SubstrFrom(p, pos + 1)>>

\* the reverse scan: pos runs from size() - 1 down to 0
RECURSIVE SplitScan(_, _)
SplitScan(p, pos) ==
  IF pos < 0 THEN <<(<<>>), p>>
  ELSE IF IsPathSeparator(At(p, pos)) THEN SplitAt(p, pos)
  ELSE SplitScan(p, pos - 1)

SplitPathImpl(p) ==
  IF p = <<>> THEN <<(<<>>), (<<>>)>> ELSE SplitScan(p, Len(p) - 1)

----------------------------------------------------------------------------
(* NormalizeWindowsPath *)

dot == <<".">>
dotdot == <<".", ".">>

\* a variant that tests only for an empty list
DotDotPopsAnySegment(segs) == segs # <<>>

\* the guard of segments.pop_back() when a ".." segment completes
DotDotPops(segs) == segs # <<>> /\ ~HasDriveSpecifierPrefix(segs[1])

\* a variant that keeps "." segments
PushesSegmentAlways(segment) == TRUE

\* the guard of segments.push_back(segment) for a segment other than ".."
PushesSegment(segment) == segment # dot

\* the segment list after a completed segment was handled
HandleSegment(segs, segment) ==
  IF segment = dotdot
  THEN (IF DotDotPops(segs) THEN SubSeq(segs, 1, Len(segs) - 1) ELSE segs)
  ELSE IF PushesSegment(segment) THEN Append(segs, segment)
  ELSE segs

\* the scanning loop: i is the loop index, segment_start as in the code
RECURSIVE NormalizeScan(_, _, _, _)
NormalizeScan(p, i, segment_start, segs) ==
  LET ch == At(p, i)
      inside == ~IsPathSeparator(ch) /\ ch # NUL
      ends == ~inside /\ segment_start >= 0 /\ i > segment_start
      start1 == IF inside THEN (IF segment_start < 0 THEN i ELSE segment_start)
                ELSE IF ends THEN -1 ELSE segment_start
      segs1 == IF ends
               THEN HandleSegment(segs, Substr(p, segment_start, i - segment_start))
               ELSE segs
  IN IF ch = NUL THEN segs1 ELSE NormalizeScan(p, i + 1, start1, segs1)

\* a variant of the join loop without the `first` flag
RECURSIVE JoinSegmentsLeadingSeparator(_)
JoinSegmentsLeadingSeparator(segs) ==
  IF segs = <<>> THEN <<>>
  ELSE JoinSegmentsLeadingSeparator(SubSeq(segs, 1, Len(segs) - 1)) \o <<BS>> \o segs[Len(segs)]

\* the final join loop
RECURSIVE JoinSegments(_)
JoinSegments(segs) ==
  IF segs = <<>> THEN <<>>
  ELSE IF Len(segs) = 1 THEN segs[1]
  ELSE JoinSegments(SubSeq(segs, 1, Len(segs) - 1)) \o <<BS>> \o segs[Len(segs)]

\* the text scanned after a leading marker was stripped
StripMarker(p) == IF Len(p) >= 4 /\ HasUncPrefix(p) THEN SubstrFrom(p, 4) ELSE p

\* what is returned once the segments are known
NormalizeResult(segs) ==
  IF Len(segs) = 1 /\ Len(segs[1]) = 2 /\ HasDriveSpecifierPrefix(segs[1])
  THEN segs[1] \o <<BS>>
  ELSE JoinSegments(segs)

\* fatal = TRUE models BAZEL_DIE: the process is terminated, nothing is returned
NormalizeWindowsPath(p) ==
  IF p = <<>> THEN [fatal |-> FALSE, value |-> <<>>]
  ELSE IF At(p, 0) = FS THEN [fatal |-> TRUE, value |-> <<>>]
  ELSE [fatal |-> FALSE,
        value |-> NormalizeResult(NormalizeScan(StripMarker(p), 0, -1, <<>>))]

----------------------------------------------------------------------------
(* IsDevNull, GetCurrentDrive, AsWindowsPath, AsAbsoluteWindowsPath *)

DevNull == <<FS, "d", "e", "v", FS, "n", "u", "l", "l">>
Nul == <<"N", "U", "L">>

\* strncmp("/dev/null\0", path, 10) == 0, or "nul" in any letter case
IsDevNull(p) ==
  /\ p # <<>>
  /\ \/ p = DevNull
     \/ /\ At(p, 0) \in {"N", "n"}
        /\ At(p, 1) \in {"U", "u"}
        /\ At(p, 2) \in {"L", "l"}
        /\ At(p, 3) = NUL

\* 'a' + wdrive - offset: an upper-case letter becomes its lower-case letter,
\* any other code unit is returned as it is
GetCurrentDrive(c) ==
  LET wdrive == At(RemoveUncPrefixMaybe(c), 0)
  IN IF wdrive \in Upper THEN LowerOf(wdrive) ELSE wdrive

Ret(ok, result, error, fatal) ==
  [ok |-> ok, result |-> result, error |-> error, fatal |-> fatal, leaf |-> <<>>]

\* "\\", "\\server\path", "//foo", ...
IsNetworkPath(p) ==
  IsPathSeparator(At(p, 0)) /\ Len(p) > 1 /\ IsPathSeparator(At(p, 1))

\* "c:" or "c:foo"
IsDriveRelative(p) ==
  HasDriveSpecifierPrefix(p) /\ (Len(p) < 3 \/ ~IsPathSeparator(At(p, 2)))

\* a variant without the Unix-style test
IsUnixStyleNever(p) == FALSE

\* the test that guards the "Unix-style paths are unsupported" return
IsUnixStyle(p) == At(p, 0) = FS

\* the text handed to NormalizeWindowsPath
MutablePath(p, c) ==
  IF At(p, 0) = BS THEN <<GetCurrentDrive(c), ":">> \o p ELSE p

AsWindowsPath(p, c) ==
  IF p = <<>> THEN Ret(TRUE, <<>>, "", FALSE)
  ELSE IF IsDevNull(p) THEN Ret(TRUE, Nul, "", FALSE)
  ELSE IF HasUncPrefix(p) THEN Ret(TRUE, p, "", FALSE)
  ELSE IF IsNetworkPath(p)
    THEN Ret(FALSE, <<>>, "network paths are unsupported", FALSE)
  ELSE IF IsDriveRelative(p)
    THEN Ret(FALSE, <<>>, "working-directory relative paths are unsupported", FALSE)
  ELSE IF IsUnixStyle(p)
    THEN Ret(FALSE, <<>>, "Unix-style paths are unsupported", FALSE)
  ELSE LET n == NormalizeWindowsPath(MutablePath(p, c))
       IN IF n.fatal THEN Ret(FALSE, <<>>, "", TRUE)
          ELSE Ret(TRUE, n.value, "", FALSE)

\* a variant that inserts the marker only into long paths, as AddUncPrefixMaybe does
NeedsMarkerOnlyIfLong(r) == ~HasUncPrefix(r) /\ Len(r) >= 260

\* the guard of the final marker insertion
NeedsMarker(r) == ~HasUncPrefix(r)

AsAbsoluteWindowsPath(p, c) ==
  IF p = <<>> THEN Ret(TRUE, <<>>, "", FALSE)
  ELSE IF IsDevNull(p) THEN Ret(TRUE, Nul, "", FALSE)
  ELSE LET w == AsWindowsPath(p, c)
           r1 == IF ~IsRootOrAbsolute(w.result, FALSE)
                 THEN c \o <<BS>> \o w.result ELSE w.result
           r2 == IF NeedsMarker(r1) THEN UncPrefix \o r1 ELSE r1
       IN IF ~w.ok THEN w ELSE Ret(TRUE, r2, "", FALSE)

----------------------------------------------------------------------------
(* The paths and working directories the operations are applied to *)

Alphabet == {"c", ":", BS, FS, "."}

Strings(n) == UNION {[1..k -> Alphabet] : k \in 0..n}

SegTexts == {dot, dotdot, <<"a">>, <<"b">>}
Ordinary == {<<"a">>, <<"b">>}
Seps == {BS, FS}
Drive == <<"c", ":">>
Roots == {Drive, <<>>, <<"a">>}

\* root, then each segment preceded by its separator
RECURSIVE Build(_, _, _)
Build(root, segs, seps) ==
  IF segs = <<>> THEN root
  ELSE Build(root, SubSeq(segs, 1, Len(segs) - 1), SubSeq(seps, 1, Len(seps) - 1))
         \o <<seps[Len(seps)]>> \o segs[Len(segs)]

SegPaths ==
  UNION {{Build(root, segs, seps) : segs \in [1..k -> SegTexts], seps \in [1..k -> Seps]}
         : root \in Roots, k \in 0..MaxSegs}

\* c:\ s1 \.\ s2 \..\ s3
DotDotPaths ==
  {Build(Drive, <<s1, dot, s2, dotdot, s3>>, <<BS, BS, BS, BS, BS>>)
     : s1 \in Ordinary, s2 \in Ordinary, s3 \in Ordinary}

SpecialPaths ==
  { DevNull, Nul, <<"n", "u", "l">>, <<"N", "u", "l">>,
    <<".", BS, "n", "u", "l">>, <<".", BS, "N", "U", "L">>,
    <<".", BS, "c", ":", "a">>, <<"a", BS, ".", ".", BS, "c", ":">>,
    <<"c", ":", "f", "o", "o">>, <<"c", ":">>,
    <<BS, BS, "s", BS, "a">>,
    UncPrefix, UncPrefix \o <<"c", ":", BS>>, UncPrefix \o <<"c", ":", BS, "a">>,
    UncPrefix \o <<"c", ":", BS, "a", BS, ".", ".", BS, "b">>,
    UncPrefix \o <<"c", ":", FS, "a", BS, BS, "b">>,
    UncPrefix \o <<"a">>,
    <<BS, "?", "?", BS, "c", ":", BS, "a">>,
    <<BS, BS, ".", BS, "c", ":", BS>>,
    <<"C", ":", BS, "F", "o", "o">>, <<"D", ":", FS, "a", FS>>,
    <<BS, "a", BS, "b">>, <<"a", BS, "b", BS>> }

Paths == Strings(MaxLen) \cup SegPaths \cup DotDotPaths \cup SpecialPaths

\* GetCwdW(): an absolute path on some drive, with or without the marker
Cwds == { <<"D", ":", BS, "w">>, UncPrefix \o <<"c", ":", BS, "w">> }

----------------------------------------------------------------------------
(* The conversions as operations on a call's state *)

NoOut == Ret(FALSE, <<>>, "", FALSE)

ShortIdle ==
  /\ pc = "idle" /\ wpath = <<>> /\ segments = <<>> /\ size = 0
  /\ wsuffix = <<>> /\ queries = <<>> /\ sres = NoOut

Init ==
  /\ path \in Paths
  /\ cwd \in Cwds
  /\ op = "none"
  /\ out = NoOut
  /\ prev = NoOut
  /\ ShortIdle

shortVars == <<pc, wpath, segments, size, wsuffix, queries, sres>>

CallNormalizeWindowsPath ==
  /\ op = "none"
  /\ op' = "NormalizeWindowsPath"
  /\ LET n == NormalizeWindowsPath(path)
     IN out' = Ret(~n.fatal, n.value, "", n.fatal)
  /\ UNCHANGED <<path, cwd, prev, shortVars>>

CallSplitPath ==
  /\ op = "none"
  /\ op' = "SplitPath"
  /\ LET s == SplitPathImpl(path)
     IN out' = [Ret(TRUE, s[1], "", FALSE) EXCEPT !.leaf = s[2]]
  /\ UNCHANGED <<path, cwd, prev, shortVars>>

CallAsWindowsPath ==
  /\ op = "none"
  /\ op' = "AsWindowsPath"
  /\ out' = AsWindowsPath(path, cwd)
  /\ UNCHANGED <<path, cwd, prev, shortVars>>

\* the caller feeds a successful result back into AsWindowsPath
CallAsWindowsPathAgain ==
  /\ op = "AsWindowsPath"
  /\ out.ok
  /\ op' = "AsWindowsPathAgain"
  /\ prev' = out
  /\ out' = AsWindowsPath(out.result, cwd)
  /\ UNCHANGED <<path, cwd, shortVars>>

CallAsAbsoluteWindowsPath ==
  /\ op = "none"
  /\ op' = "AsAbsoluteWindowsPath"
  /\ out' = AsAbsoluteWindowsPath(path, cwd)
  /\ UNCHANGED <<path, cwd, prev, shortVars>>

Next ==
  \/ CallNormalizeWindowsPath
  \/ CallSplitPath
  \/ CallAsWindowsPath
  \/ CallAsWindowsPathAgain
  \/ CallAsAbsoluteWindowsPath

Spec == Init /\ [][Next]_vars

----------------------------------------------------------------------------
(* AsShortWindowsPath, one action per step of its control flow *)

\* the answers of the OS query: NotFound and OtherError both make
\* GetShortPathNameW return 0; they differ only in GetLastError()
Outcomes == {"Ok", "NotFound", "OtherError"}

\* the 8.3 alias of one path component
CompactSegment(seg) ==
  IF Len(seg) > 8 THEN SubSeq(seg, 1, 6) \o <<"~", "1">> ELSE seg

\* the compact name the OS stores in the buffer for an existing path: every
\* component replaced by its alias, marker and separators kept
RECURSIVE CompactFrom(_, _, _)
CompactFrom(p, i, seg) ==
  IF i >= Len(p) THEN CompactSegment(seg)
  ELSE IF IsPathSeparator(At(p, i))
    THEN CompactSegment(seg) \o <<At(p, i)>> \o CompactFrom(p, i + 1, <<>>)
  ELSE CompactFrom(p, i + 1, Append(seg, At(p, i)))

GetShortPathNameW(p) ==
  IF HasUncPrefix(p) THEN Substr(p, 0, 4) \o CompactFrom(SubstrFrom(p, 4), 0, <<>>)
  ELSE CompactFrom(p, 0, <<>>)

\* the answers the OS can give for path p: the empty path names nothing
OutcomesFor(p) == IF p = <<>> THEN Outcomes \ {"Ok"} ELSE Outcomes

\* the value of the sizing call GetShortPathNameW(wpath, nullptr, 0)
SizeQuery(p, outcome) == IF outcome = "Ok" THEN Len(GetShortPathNameW(p)) + 1 ELSE 0

\* a variant that does not stop at a root
AscentContinuesPastRoot(sz, wp) == sz = 0

\* the condition of the while loop
AscentContinues(sz, wp) == sz = 0 /\ ~IsRootDirectoryW(wp)

\* a variant that walks the segments in push order
RECURSIVE JoinSuffixForward(_, _, _)
JoinSuffixForward(segs, wp, first) ==
  IF segs = <<>> THEN <<>>
  ELSE LET it == segs[1]
           piece == IF ~first \/ ~IsRootDirectoryW(wp) THEN <<BS>> \o it ELSE it
       IN piece \o JoinSuffixForward(Tail(segs), wp, FALSE)

\* the join loop over segments.crbegin() .. segments.crend()
RECURSIVE JoinSuffix(_, _, _)
JoinSuffix(segs, wp, first) ==
  IF segs = <<>> THEN <<>>
  ELSE LET it == segs[Len(segs)]
           piece == IF ~first \/ ~IsRootDirectoryW(wp) THEN <<BS>> \o it ELSE it
       IN piece \o JoinSuffix(SubSeq(segs, 1, Len(segs) - 1), wp, FALSE)

ShortSegTexts ==
  { <<"a">>, <<"F", "o">>, <<"l", "o", "n", "g", "f", "o", "l", "d", "e">> }

RECURSIVE JoinBS(_)
JoinBS(segs) ==
  IF segs = <<>> THEN <<>>
  ELSE IF Len(segs) = 1 THEN segs[1]
  ELSE JoinBS(SubSeq(segs, 1, Len(segs) - 1)) \o <<BS>> \o segs[Len(segs)]

ShortRoots == { <<>>, <<"C", ":", BS>>, UncPrefix \o <<"c", ":", BS>> }

ShortPaths ==
  UNION {{root \o JoinBS(segs) : segs \in [1..k -> ShortSegTexts]}
         : root \in ShortRoots, k \in 0..MaxShortSegs}
  \cup { DevNull, <<"n", "u", "l">>, <<"c", ":", "a">>, <<FS, "a">>,
         <<BS, "a">>, <<"a", BS, ".", ".", BS, "F", "o", FS>>,
         UncPrefix \o <<"a">>,
         UncPrefix \o <<"c", ":", BS, "a", FS, FS, "F", "o">> }

InitShort ==
  /\ path \in ShortPaths
  /\ cwd \in Cwds
  /\ op = "none" /\ out = NoOut /\ prev = NoOut
  /\ pc = "start"
  /\ wpath = <<>> /\ segments = <<>> /\ size = 0 /\ wsuffix = <<>>
  /\ queries = <<>> /\ sres = NoOut

pureVars == <<path, cwd, op, out, prev>>

Query(kind, p, outcome) == [kind |-> kind, path |-> p, outcome |-> outcome]

\* lines 275-287: the early returns, AsAbsoluteWindowsPath and the first sizing query
ShortBegin ==
  /\ pc = "start"
  /\ IF IsDevNull(path)
     THEN /\ sres' = Ret(TRUE, Nul, "", FALSE)
          /\ pc' = "done"
          /\ UNCHANGED <<wpath, size, queries>>
     ELSE LET a == AsAbsoluteWindowsPath(path, cwd)
          IN IF ~a.ok
             THEN /\ sres' = a
                  /\ pc' = "done"
                  /\ UNCHANGED <<wpath, size, queries>>
             ELSE \E o \in OutcomesFor(a.result) :
                  /\ wpath' = a.result
                  /\ size' = SizeQuery(a.result, o)
                  /\ queries' = <<Query("size", a.result, o)>>
                  /\ pc' = IF size' = 0 THEN "ascend" ELSE "resolve"
                  /\ sres' = sres
  /\ UNCHANGED <<pureVars, segments, wsuffix>>

\* lines 294-299: one iteration of the while loop
ShortAscend ==
  /\ pc = "ascend"
  /\ AscentContinues(size, wpath)
  /\ Len(segments) < MaxIter
  /\ LET split == SplitPathImpl(wpath)
     IN \E o \in OutcomesFor(split[1]) :
        /\ wpath' = split[1]
        /\ segments' = Append(segments, split[2])
        /\ size' = SizeQuery(split[1], o)
        /\ queries' = Append(queries, Query("size", split[1], o))
  /\ UNCHANGED <<pureVars, pc, wsuffix, sres>>

\* lines 301-312: the loop has ended, the segments are joined
ShortJoin ==
  /\ pc = "ascend"
  /\ ~AscentContinues(size, wpath)
  /\ wsuffix' = JoinSuffix(segments, wpath, TRUE)
  /\ pc' = "resolve"
  /\ UNCHANGED <<pureVars, wpath, segments, size, queries, sres>>

\* lines 315-338: the result is built, with the buffer-filling query when
\* the surviving prefix is not a root
ShortResolve ==
  /\ pc = "resolve"
  /\ pc' = "done"
  /\ IF IsRootDirectoryW(wpath)
     THEN /\ sres' = Ret(TRUE, ToLower(RemoveUncPrefixMaybe(wpath) \o wsuffix), "", FALSE)
          /\ queries' = queries
     ELSE \E o \in OutcomesFor(wpath) :
          /\ queries' = Append(queries, Query("fill", wpath, o))
          /\ sres' = IF o = "Ok"
                     THEN Ret(TRUE,
                              ToLower(RemoveUncPrefixMaybe(GetShortPathNameW(wpath)) \o wsuffix),
                              "", FALSE)
                     ELSE Ret(FALSE, <<>>, "GetShortPathNameW failed", FALSE)
  /\ UNCHANGED <<pureVars, wpath, segments, size, wsuffix>>

NextShort ==
  \/ ShortBegin
  \/ ShortAscend
  \/ ShortJoin
  \/ ShortResolve

SpecShort == InitShort /\ [][NextShort]_vars

----------------------------------------------------------------------------
(* Properties of NormalizeWindowsPath *)

AllBS(n) == [i \in 1..n |-> BS]

\* C1: for every input c:\ s1 \.\ s2 \..\ s3 with ordinary segments s1, s2, s3,
\* NormalizeWindowsPath returns c:\ s1 \ s3: the "." is dropped and the ".."
\* removes the segment s2 that precedes it, also behind a drive specifier.
C1_DotDotRemovesPrecedingSegment ==
  op = "NormalizeWindowsPath" =>
    \A s1 \in Ordinary, s2 \in Ordinary, s3 \in Ordinary :
      path = Build(Drive, <<s1, dot, s2, dotdot, s3>>, AllBS(5))
        => out.result = Drive \o <<BS>> \o s1 \o <<BS>> \o s3

\* <input, expected result> for a drive root followed by n >= 1 ".." segments
\* and then m >= 0 ordinary segments, with every mix of separators
RootAbsorptionCases ==
  UNION {{ <<Build(Drive, [i \in 1..(n + m) |-> IF i <= n THEN dotdot ELSE ords[i - n]], seps),
             IF m = 0 THEN Drive \o <<BS>> ELSE Build(Drive, ords, AllBS(m))>>
           : ords \in [1..m -> Ordinary], seps \in [1..(n + m) -> Seps] }
         : n \in 1..MaxSegs, m \in 0..(MaxSegs - 1)}

\* C2: a drive root followed by any number n >= 1 of ".." segments normalizes to
\* exactly <letter>:\ and, when ordinary segments follow, to <letter>:\ followed
\* by exactly those segments; a ".." never removes the drive specifier, so the
\* result of a path that starts with a drive specifier starts with it too.
C2_RootAbsorption ==
  op = "NormalizeWindowsPath" =>
    /\ \A c \in RootAbsorptionCases : path = c[1] => out.result = c[2]
    /\ HasDriveSpecifierPrefix(path) => SubSeq(out.result, 1, 2) = SubSeq(path, 1, 2)

C2_Witness ==
  /\ op = "NormalizeWindowsPath"
  /\ path = Build(Drive, <<dotdot, dotdot, <<"a">>>>, <<BS, FS, BS>>)
  /\ out.result = <<"c", ":", BS, "a">>

\* r[i..j] is a segment of r: a maximal run without a backslash
IsSegmentOf(r, i, j) ==
  /\ i <= j
  /\ \A k \in i..j : r[k] # BS
  /\ (i = 1 \/ r[i - 1] = BS)
  /\ (j = Len(r) \/ r[j + 1] = BS)

CanonicalForm(r) ==
  /\ \A i \in 1..Len(r) : r[i] # FS
  /\ \A i \in 1..Len(r), j \in 1..Len(r) :
       IsSegmentOf(r, i, j) => SubSeq(r, i, j) \notin {dot, dotdot}
  /\ \A i \in 1..(Len(r) - 1) : ~(r[i] = BS /\ r[i + 1] = BS)
  /\ r # <<>> => r[1] # BS
  /\ (r # <<>> /\ r[Len(r)] = BS) =>
       (Len(r) = 3 /\ IsAlpha(r[1]) /\ r[2] = ":")

\* C3: for every input that does not begin with "/", the result of
\* NormalizeWindowsPath has no "/", no "." or ".." segment, no empty segment and
\* no trailing separator, except that it may be exactly <letter>:\ .
C3_CanonicalForm ==
  (op = "NormalizeWindowsPath" /\ At(path, 0) # FS) =>
    (~out.fatal /\ CanonicalForm(out.result))

C3_Witness ==
  /\ op = "NormalizeWindowsPath"
  /\ path = Build(<<"a">>, <<dot, <<"b">>, dotdot>>, <<FS, BS, BS>>)
  /\ out.result = <<"a">>

----------------------------------------------------------------------------
(* Properties of AsWindowsPath and AsAbsoluteWindowsPath *)

\* C4 as claimed: whenever AsWindowsPath succeeds with result r, AsWindowsPath
\* applied to r (same working directory) succeeds and returns exactly r.
C4_Idempotent ==
  op = "AsWindowsPathAgain" => (out.ok /\ out.result = prev.result)

\* C4 as amended: whenever AsWindowsPath succeeds with a result r that is neither
\* a null-device alias spelled otherwise than "NUL" nor a text that begins with a
\* drive specifier without a separator at offset 2, AsWindowsPath applied to r
\* succeeds and returns exactly r.
C4_IdempotentOnSupportedResults ==
  ( /\ op = "AsWindowsPathAgain"
    /\ IsDevNull(prev.result) => prev.result = Nul
    /\ ~( /\ IsAlpha(At(prev.result, 0))
          /\ At(prev.result, 1) = ":"
          /\ ~IsPathSeparator(At(prev.result, 2)) ) )
  => (out.ok /\ out.result = prev.result)

C4_Witness ==
  /\ op = "AsWindowsPathAgain"
  /\ path = <<BS, "a", BS, "b">>
  /\ cwd = <<"D", ":", BS, "w">>
  /\ prev.result = <<"d", ":", BS, "a", BS, "b">>
  /\ out.ok
  /\ out.result = prev.result

\* C5 as claimed: whenever AsAbsoluteWindowsPath succeeds, its result begins
\* with the long-path marker, for every input and every working directory.
C5_AlwaysMarker ==
  (op = "AsAbsoluteWindowsPath" /\ out.ok) => HasUncPrefix(out.result)

\* C5 as amended: whenever AsAbsoluteWindowsPath succeeds on an input that is
\* neither empty nor a null-device alias, its result begins with the long-path
\* marker.
C5_MarkerUnlessEmptyOrDevNull ==
  (op = "AsAbsoluteWindowsPath" /\ out.ok /\ path # <<>> /\ ~IsDevNull(path))
    => HasUncPrefix(out.result)

C5_Witness ==
  /\ op = "AsAbsoluteWindowsPath"
  /\ path = <<"a">>
  /\ cwd = <<"D", ":", BS, "w">>
  /\ out.ok
  /\ out.result = UncPrefix \o <<"D", ":", BS, "w", BS, "a">>

\* the three unsupported syntaxes, read off the text of the input
UnsupportedSyntax(p) ==
  \/ Len(p) >= 2 /\ p[1] \in Seps /\ p[2] \in Seps
  \/ Len(p) >= 2 /\ IsAlpha(p[1]) /\ p[2] = ":" /\ (Len(p) = 2 \/ p[3] \notin Seps)
  \/ Len(p) >= 1 /\ p[1] = FS

\* C6: on a non-empty input that is no null-device alias and carries no marker,
\* AsWindowsPath returns false with a message when the input begins with two
\* separators, is drive-relative or begins with "/", and returns true on every
\* other input; NormalizeWindowsPath is never reached with text beginning with
\* "/", so no call of AsWindowsPath ends in the fatal abort.
C6_UnsupportedSyntaxIsReturned ==
  /\ (op = "AsWindowsPath" /\ path # <<>> /\ ~IsDevNull(path) /\ ~HasUncPrefix(path)) =>
       IF UnsupportedSyntax(path) THEN ~out.ok /\ out.error # "" ELSE out.ok
  /\ op \in {"AsWindowsPath", "AsWindowsPathAgain", "AsAbsoluteWindowsPath"} => ~out.fatal

C6_Witness ==
  /\ op = "AsWindowsPath"
  /\ path = <<FS, "c">>
  /\ ~out.ok
  /\ out.error = "Unix-style paths are unsupported"
  /\ ~out.fatal

----------------------------------------------------------------------------
(* Properties of SplitPath / SplitPathW *)

\* the prefix t is <letter>: or marker + <letter>: followed by one separator
IsRootText(t) ==
  \/ Len(t) = 3 /\ IsAlpha(t[1]) /\ t[2] = ":" /\ t[3] \in Seps
  \/ /\ Len(t) = 7
     /\ SubSeq(t, 1, 4) \in {UncPrefix, <<BS, BS, ".", BS>>, <<BS, "?", "?", BS>>}
     /\ IsAlpha(t[5]) /\ t[6] = ":" /\ t[7] \in Seps

\* C9: SplitPath returns ("", "") for the empty path and ("", path) for a path
\* without separator; otherwise the leaf is the text after the rightmost
\* separator, and the parent is the prefix including that separator when the
\* separator is at offset 2 or 6 and the prefix is a root, a single separator
\* when it is at offset 0, and the text before the separator in every other case.
C9_SplitContract ==
  op = "SplitPath" =>
    LET at == {i \in 1..Len(path) : path[i] \in Seps}
        parent == out.result
        leaf == out.leaf
    IN IF path = <<>> THEN parent = <<>> /\ leaf = <<>>
       ELSE IF at = {} THEN parent = <<>> /\ leaf = path
       ELSE LET q == CHOOSE i \in at : \A j \in at : j <= i
            IN /\ leaf = SubSeq(path, q + 1, Len(path))
               /\ \A i \in 1..Len(leaf) : leaf[i] \notin Seps
               /\ parent = IF q \in {3, 7} /\ IsRootText(SubSeq(path, 1, q))
                           THEN SubSeq(path, 1, q)
                           ELSE IF q = 1 THEN <<path[1]>>
                           ELSE SubSeq(path, 1, q - 1)

C9_Witness ==
  /\ op = "SplitPath"
  /\ path = UncPrefix \o <<"c", ":", BS, "a">>
  /\ out.result = UncPrefix \o <<"c", ":", BS>>
  /\ out.leaf = <<"a">>

----------------------------------------------------------------------------
(* Properties of AsShortWindowsPath *)

C8_EachIterationShortens ==
  [][(pc = "ascend" /\ pc' = "ascend") => Len(wpath') < Len(wpath)]_vars

RECURSIVE Flatten(_)
Flatten(ss) == IF ss = <<>> THEN <<>> ELSE ss[1] \o Flatten(Tail(ss))

\* the split-off segments in their original order, each preceded by one "\",
\* the first one without it when the surviving prefix is a root
RejoinedTail ==
  LET k == Len(segments)
      orig == [i \in 1..k |-> segments[k + 1 - i]]
  IN Flatten([i \in 1..k |->
       (IF i = 1 /\ IsRootDirectoryW(wpath) THEN <<>> ELSE <<BS>>) \o orig[i]])

SurvivingPrefix ==
  RemoveUncPrefixMaybe(IF IsRootDirectoryW(wpath) THEN wpath ELSE GetShortPathNameW(wpath))

\* C10 as claimed: when k >= 1 segments were split off, the result is the
\* marker-stripped surviving prefix (its compact name, or the root) followed by
\* the split-off segments, in original order and with their original texts.
C10_RejoinOriginalTexts ==
  (pc = "done" /\ sres.ok /\ Len(segments) >= 1) =>
    sres.result = SurvivingPrefix \o RejoinedTail

\* C10 as amended: when k >= 1 segments were split off, the result is the
\* lower-cased form of the marker-stripped surviving prefix (its compact name, or
\* the root) followed by the split-off segments in original order; for an input
\* without marker the surviving prefix followed by those segments is the absolute
\* path itself.
C10_RejoinLowerCased ==
  (pc = "done" /\ sres.ok /\ Len(segments) >= 1) =>
    /\ sres.result = ToLower(SurvivingPrefix \o RejoinedTail)
    /\ ~HasUncPrefix(path) =>
         wpath \o RejoinedTail = AsAbsoluteWindowsPath(path, cwd).result

C10_Witness ==
  /\ pc = "done"
  /\ sres.ok
  /\ path = <<"C", ":", BS, "l", "o", "n", "g", "f", "o", "l", "d", "e", BS, "F", "o", BS, "a">>
  /\ segments = << <<"a">>, <<"F", "o">> >>
  /\ sres.result = <<"c", ":", BS, "l", "o", "n", "g", "f", "o", "~", "1", BS, "f", "o", BS, "a">>

====
